---------------------------- MODULE Spec2Model ----------------------------
(***************************************************************************)
(* A model of the dependency resolver of typings (src/lib/dependencies.ts) *)
(* over an abstract file system.  Every promise that stands for a          *)
(* dependency-tree node is a task; a task is named by the path of          *)
(* dependency-map keys that leads to it, which is also the identity of the *)
(* node object it creates.                                                 *)
(***************************************************************************)
EXTENDS Integers, Sequences, FiniteSets, TLC

VARIABLES
  fs,                   \* the file system and the network: path -> content
  options,              \* the Options of the running resolveDependencies call
  tasks,                \* task id -> the pending, resolved or rejected promise
  nodes,                \* node id -> DependencyTree object
  DEFAULT_DEPENDENCY,   \* the four map objects shared by every default copy
  result,               \* the promise returned by resolveDependencies
  reads,                \* history: tasks whose manifest went to readJson / readConfigFrom
  checked,              \* history: tasks whose src went to checkCircularDependency
  thrown,               \* history: tasks on whose src checkCircularDependency threw
  earlier,              \* history: an earlier call in this process delivered a tree
  before,               \* history: the tree delivered before the root manifests were edited
  previous,             \* history: the outcome of the call before, made with the same options
  disk,                 \* transformFile: the contents of the file at path, if any
  lockfile,             \* transformFile: the caller that made `${path}.lock`, if any
  callers,              \* transformFile: caller -> position and values of its call
  listing,              \* typings/main.d.ts and typings/browser.d.ts: their contents, if any
  installed,            \* the definition files under typings/
  written,              \* history: the dependencies written and not removed since
  calls,                \* history: the calls of writeDependency and removeDependency
  compileTree,          \* compile: the tree of the call, keys -> node
  compiled,             \* compile: the promise of the call, with its name
  entries               \* compile: the entries resolved and read, by target and node

vars == <<fs, options, tasks, nodes, DEFAULT_DEPENDENCY, result, reads, checked, thrown, earlier,
         before, previous, disk, lockfile, callers, listing, installed, written, calls,
         compileTree, compiled, entries>>

\* The state of the resolver, and the state of transformFile.
resolverVars == <<fs, options, tasks, nodes, DEFAULT_DEPENDENCY, result, reads, checked, thrown,
                  earlier, before, previous>>

transformVars == <<disk, lockfile, callers>>

listingVars == <<listing, installed, written, calls>>

compileVars == <<compileTree, compiled, entries>>

\* What a step of the resolver leaves alone.
others == <<transformVars, listingVars, compileVars>>

----------------------------------------------------------------------------
(* Bounds of the model. *)

\* Longest chain of dependency keys a task may have; above every chain the
\* file systems of the model need (a cycle is cut by the resolver itself).
MaxDepth == 6

\* Longest list of candidates of a native dependency entry.
MaxCandidates == 3

----------------------------------------------------------------------------
(* Values of manifest fields: typeof tags a JavaScript value; a string is   *)
(* held as a path, the sequence of its segments.                           *)

Undefined == [t |-> "undefined", v |-> <<>>]
Str(s)    == [t |-> "string", v |-> s]
Obj(s)    == [t |-> "object", v |-> s]

typeof(x) == x.t

\* a || b for the values above
OrElse(a, b) == IF a.t = "undefined" \/ (a.t = "string" /\ a.v = <<>>) THEN b ELSE a

PROJECT_NAME == "typings"
CONFIG_FILE  == "typings.json"

----------------------------------------------------------------------------
(* Paths and URLs: sequences of segments.  A local absolute path starts    *)
(* with "/", a URL with "http:".                                           *)

NoPath == <<>>

Last(p) == p[Len(p)]

dirname(p) == IF Len(p) <= 1 THEN p ELSE SubSeq(p, 1, Len(p) - 1)

RECURSIVE Normalize(_)
Normalize(p) ==
  IF Len(p) = 0 THEN p
  ELSE LET init == Normalize(SubSeq(p, 1, Len(p) - 1))
           s    == Last(p)
       IN  CASE s = "."  -> init
             [] s = ".." -> IF Len(init) <= 1 THEN init ELSE SubSeq(init, 1, Len(init) - 1)
             [] OTHER    -> Append(init, s)

IsAbsolute(p) == Len(p) > 0 /\ p[1] \in {"/", "http:"}

\* path.resolve(from, to) and path.join(a, '..', b)
resolve(from, to) == IF IsAbsolute(to) THEN Normalize(to) ELSE Normalize(from \o to)

join(a, b) == Normalize(a \o b)

\* The names of the model that end in ".d.ts".
DefinitionNames == {"index.d.ts", "x.d.ts", "y.d.ts"}

isDefinition(p) == Len(p) > 0 /\ Last(p) \in DefinitionNames

isHttp(p) == Len(p) > 0 /\ p[1] = "http:"

\* url.resolve(from, to): a relative reference replaces the last segment of
\* the base; a local absolute path replaces the whole path of the URL.
resolveUrl(from, to) ==
  CASE isHttp(to)             -> Normalize(to)
    [] Len(to) > 0 /\ to[1] = "/" -> Normalize(SubSeq(from, 1, 2) \o SubSeq(to, 2, Len(to)))
    [] OTHER                  -> Normalize(dirname(from) \o to)

----------------------------------------------------------------------------
(* Manifests.  A dependency map of a manifest is a sequence of entries     *)
(* [k, v] in the order of the JSON text; the value of a native entry is a  *)
(* dependency string or an array of them, each already parsed into a       *)
(* descriptor [type, location] (utils/parse is not part of this model).    *)

Dep(type, location) == [type |-> type, location |-> location]

One(d)   == [t |-> "string", v |-> d]
Many(ds) == [t |-> "array", v |-> ds]

\* An npm or bower entry: its value, a version range, is never read.
Ver(k) == [k |-> k, v |-> One(Dep("range", <<"*">>))]

Ent(k, val) == [k |-> k, v |-> val]

arrify(val) == IF val.t = "array" THEN val.v ELSE <<val.v>>

NoMap == <<>>

\* The JSON text "{}".
EmptyJson ==
  [kind |-> "json", name |-> Undefined, version |-> Undefined, main |-> Undefined,
   browser |-> Undefined, typings |-> Undefined, browserTypings |-> Undefined,
   ambient |-> FALSE, directory |-> Undefined,
   dependencies |-> NoMap, devDependencies |-> NoMap, optionalDependencies |-> NoMap,
   ambientDependencies |-> NoMap, ambientDevDependencies |-> NoMap]

\* A file whose text is not JSON.
NotJson == [EmptyJson EXCEPT !.kind = "text"]

\* A URL the server answers with a status other than 200.
NotOk == [EmptyJson EXCEPT !.kind = "status"]

Keys(m) == [i \in 1..Len(m) |-> m[i].k]

KeySet(m) == {m[i].k : i \in 1..Len(m)}

Value(m, k) == LET i == CHOOSE j \in 1..Len(m) : m[j].k = k IN m[i].v

RECURSIVE SelectNew(_, _)
SelectNew(b, seen) ==
  IF Len(b) = 0 THEN <<>>
  ELSE IF b[1].k \in seen THEN SelectNew(Tail(b), seen)
       ELSE <<b[1]>> \o SelectNew(Tail(b), seen)

\* extend(a, b) of xtend on two manifest maps: a's keys in a's order with
\* b's value where b has the key, then b's other keys.
extendMap(a, b) ==
  [i \in 1..Len(a) |-> IF a[i].k \in KeySet(b) THEN Ent(a[i].k, Value(b, a[i].k)) ELSE a[i]]
    \o SelectNew(b, KeySet(a))

Exists(f, p) == p \in DOMAIN f

\* readFile(path).then(stripBom).then(parseJson): TRUE when it is fulfilled;
\* readFile reads the local file system only.
readJsonOk(f, p) == ~isHttp(p) /\ Exists(f, p) /\ f[p].kind = "json"

\* readConfigFrom(path): the file or the URL, read and parsed the same way.
readConfigFromOk(f, p) == Exists(f, p) /\ f[p].kind = "json"

\* findUp(dir, name): the first dir/name that exists, walking upwards.
RECURSIVE findUp(_, _, _)
findUp(f, dir, name) ==
  IF Exists(f, join(dir, name)) THEN join(dir, name)
  ELSE IF Len(dir) <= 1 \/ isHttp(dir) THEN NoPath
  ELSE findUp(f, dirname(dir), name)

findConfigFile(f, dir) == findUp(f, dir, <<CONFIG_FILE>>)

----------------------------------------------------------------------------
(* Tasks and nodes.  A step names one entry of one dependency map and the  *)
(* candidate tried for it; an id is the sequence of steps from the call of *)
(* resolveDependencies.                                                    *)

Step(m, k, c) == [m |-> m, k |-> k, c |-> c]

\* The node mergeDependencies returns.
ROOT == <<>>

\* The module-level object MISSING_DEPENDENCY.
MISSING == <<Step("const", "MISSING_DEPENDENCY", 0)>>

\* parent: undefined
NoParent == <<Step("const", "undefined", 0)>>

BowerTask  == <<Step("root", "bower", 1)>>
NpmTask    == <<Step("root", "npm", 1)>>
NativeTask == <<Step("root", PROJECT_NAME, 1)>>

MapNames == <<"dependencies", "devDependencies", "ambientDependencies", "ambientDevDependencies">>

MapNameSet == {MapNames[i] : i \in 1..Len(MapNames)}

\* A dependency map of a node: key -> node id.
EmptyMap == [k \in {} |-> ROOT]

\* A map field of a node holds a reference: to a map object of its own, or
\* to the map object of DEFAULT_DEPENDENCY that extend() copied by reference.
Shared == [shared |-> TRUE, m |-> EmptyMap]

Own(m) == [shared |-> FALSE, m |-> m]

\* extend(a, b) of xtend on two maps of nodes: a new object.
extend(a, b) == [k \in DOMAIN a \cup DOMAIN b |-> IF k \in DOMAIN b THEN b[k] ELSE a[k]]

\* zipObject(keys, values)
zipObject(keys, values) ==
  [k \in {keys[i] : i \in 1..Len(keys)} |->
     values[CHOOSE i \in 1..Len(keys) : keys[i] = k /\ \A j \in i+1..Len(keys) : keys[j] # k]]

\* extend(DEFAULT_DEPENDENCY): every field copied, the four maps by reference.
DefaultNode ==
  [type |-> "undefined", ambient |-> FALSE, missing |-> FALSE, src |-> NoPath,
   name |-> Undefined, version |-> Undefined, main |-> Undefined, browser |-> Undefined,
   typings |-> Undefined, browserTypings |-> Undefined, parent |-> NoParent,
   dependencies |-> Shared, devDependencies |-> Shared,
   ambientDependencies |-> Shared, ambientDevDependencies |-> Shared]

\* extend(DEFAULT_DEPENDENCY, { missing: true })
MissingNode == [DefaultNode EXCEPT !.missing = TRUE]

\* The map object a field of a node refers to, in heap d.
MapOf(d, node, m) == IF node[m].shared THEN d[m] ELSE node[m].m

NoOptions == [cwd |-> NoPath, dev |-> FALSE, ambient |-> FALSE]

NoMaps ==
  [dependencies |-> NoMap, devDependencies |-> NoMap,
   ambientDependencies |-> NoMap, ambientDevDependencies |-> NoMap]

\* A promise that stands for a node.  fn is the function that returned it,
\* phase what it waits for, kind the reader its manifest goes to; expanded
\* says that its handler read the manifest at src and expanded its maps.
Task(fn, phase, kind, src, name, opts, parent, componentPath) ==
  [fn |-> fn, phase |-> phase, kind |-> kind, src |-> src, name |-> name,
   options |-> opts, parent |-> parent, componentPath |-> componentPath,
   expanded |-> FALSE]

IsPrefix(a, b) == Len(a) < Len(b) /\ SubSeq(b, 1, Len(a)) = a

\* The parent chain of a node: tree, tree.parent, tree.parent.parent, ...
RECURSIVE Chain(_, _)
Chain(ns, id) ==
  IF id = NoParent \/ id \notin DOMAIN ns THEN <<>>
  ELSE <<id>> \o Chain(ns, ns[id].parent)

\* A check that looks at the parent only, not at the chain above it.
checkParentOnly(ns, tree, filename) ==
  /\ tree # NoParent
  /\ ns[tree].src = filename

\* checkCircularDependency(tree, filename): TRUE when the invariant throws.
checkCircularDependency(ns, tree, filename) ==
  /\ tree # NoParent
  /\ \E i \in 1..Len(Chain(ns, tree)) : ns[Chain(ns, tree)[i]].src = filename

\* A then() whose onRejected also caught what onFulfilled throws.
thenCatch(fn) == "missing"

\* What becomes of the promise p.then(onFulfilled, onRejected) of function fn
\* when onFulfilled throws: onRejected handles the rejection of p only.
thenThrow(fn) == "rejected"

----------------------------------------------------------------------------
(* The synchronous part of each resolver function: the task it returns,    *)
(* the node it creates at once (if any), and what it checked and read.     *)

Started(task, node, chk, thr, rd) ==
  [task |-> task, node |-> node, checked |-> chk, threw |-> thr, read |-> rd]

\* resolve{Bower,Npm,Type}DependencyFrom up to the read of the manifest;
\* fn is the function whose promise the call settles.
DependencyFrom(ns, kind, fn, src, componentPath, opts, parent) ==
  IF checkCircularDependency(ns, parent, src)
  THEN Started(Task(fn, "rejected", kind, src, NoPath, opts, parent, componentPath),
               <<>>, TRUE, TRUE, FALSE)
  ELSE Started(Task(fn, "readJson", kind, src, NoPath, opts, parent, componentPath),
               <<>>, TRUE, FALSE, TRUE)

\* A call made in the fulfilment handler of fn's p.then(onFulfilled, onRejected),
\* whose onRejected returns a missing node of the given type.
InHandler(fn, type, st) ==
  IF st.threw /\ thenThrow(fn) = "missing"
  THEN [st EXCEPT !.task.phase = "resolved", !.node = <<[MissingNode EXCEPT !.type = type]>>]
  ELSE st

\* A file dependency that is read as a manifest whatever its name.
resolveFileAsManifest(ns, caller, location, opts, parent) ==
  LET src == IF isHttp(location) THEN location
             ELSE IF parent # NoParent /\ isHttp(ns[parent].src)
                  THEN resolveUrl(ns[parent].src, location)
                  ELSE resolve(opts.cwd, location)
  IN  DependencyFrom(ns, PROJECT_NAME, caller, src, NoPath, opts, parent)

\* resolveFileDependency(location, options, parent)
resolveFileDependency(ns, caller, location, opts, parent) ==
  LET src == IF isHttp(location) THEN location
             ELSE IF parent # NoParent /\ isHttp(ns[parent].src)
                  THEN resolveUrl(ns[parent].src, location)
                  ELSE resolve(opts.cwd, location)
  IN  IF ~isDefinition(src)
      THEN DependencyFrom(ns, PROJECT_NAME, caller, src, NoPath, opts, parent)
      ELSE Started(Task("resolveFileDependency", "resolved", PROJECT_NAME, src, NoPath,
                        opts, parent, NoPath),
                   <<[DefaultNode EXCEPT !.type = PROJECT_NAME, !.typings = Str(src),
                                         !.src = src, !.parent = parent]>>,
                   FALSE, FALSE, FALSE)

\* resolveNpmDependency(name, options, parent): findUp is pending.
resolveNpmDependency(name, opts, parent) ==
  Started(Task("resolveNpmDependency", "findUp", "npm", NoPath, join(<<"node_modules">>, name),
               opts, parent, NoPath),
          <<>>, FALSE, FALSE, FALSE)

\* resolveBowerDependency(name, options, parent): the read of .bowerrc is pending.
resolveBowerDependency(name, opts, parent) ==
  Started(Task("resolveBowerDependency", "bowerrc", "bower", NoPath, name,
               opts, parent, NoPath),
          <<>>, FALSE, FALSE, FALSE)

\* resolveDependency(dependency, options, parent)
resolveDependency(ns, dependency, opts, parent) ==
  CASE dependency.type = "npm"   -> resolveNpmDependency(dependency.location, opts, parent)
    [] dependency.type = "bower" -> resolveBowerDependency(dependency.location, opts, parent)
    [] OTHER -> resolveFileDependency(ns, "resolveTypeDependencyMap",
                                      dependency.location, opts, parent)

----------------------------------------------------------------------------
(* The state a handler works on, and the tasks it starts.                  *)

World == [tasks |-> tasks, nodes |-> nodes, reads |-> reads, checked |-> checked,
          thrown |-> thrown]

Mark(id, st) == {id}

\* The world with task id started as st.
Put(w, id, st) ==
  [tasks   |-> (id :> st.task) @@ w.tasks,
   nodes   |-> IF st.node = <<>> THEN w.nodes ELSE (id :> st.node[1]) @@ w.nodes,
   reads   |-> IF st.read THEN w.reads \cup Mark(id, st) ELSE w.reads,
   checked |-> IF st.checked THEN w.checked \cup Mark(id, st) ELSE w.checked,
   thrown  |-> IF st.threw THEN w.thrown \cup Mark(id, st) ELSE w.thrown]

\* Promise.all: a rejected promise rejects every Promise.all that waits for it.
Propagate(ts) ==
  [i \in DOMAIN ts |->
     IF ts[i].phase = "all" /\ \E j \in DOMAIN ts : IsPrefix(i, j) /\ ts[j].phase = "rejected"
     THEN [ts[i] EXCEPT !.phase = "rejected"]
     ELSE ts[i]]

TopTasks == {BowerTask, NpmTask, NativeTask}

\* The promise of resolveDependencies after the tasks became ts.
Settled(ts, res) ==
  IF res.state = "pending" /\ \E i \in TopTasks : i \in DOMAIN ts /\ ts[i].phase = "rejected"
  THEN [res EXCEPT !.state = "rejected"]
  ELSE res

Commit(w) ==
  /\ tasks' = Propagate(w.tasks)
  /\ nodes' = w.nodes
  /\ reads' = w.reads
  /\ checked' = w.checked
  /\ thrown' = w.thrown
  /\ result' = Settled(Propagate(w.tasks), result)

\* The dependency maps each reader expands, by the options it was given.
selectMaps(kind, json, opts) ==
  CASE kind = "bower" ->
         [NoMaps EXCEPT !.dependencies = json.dependencies,
                        !.devDependencies = IF opts.dev THEN json.devDependencies ELSE NoMap]
    [] kind = "npm" ->
         [NoMaps EXCEPT !.dependencies = extendMap(json.dependencies, json.optionalDependencies),
                        !.devDependencies = IF opts.dev THEN json.devDependencies ELSE NoMap]
    [] OTHER ->
         [dependencies |-> json.dependencies,
          devDependencies |-> IF opts.dev THEN json.devDependencies ELSE NoMap,
          ambientDependencies |-> IF opts.ambient THEN json.ambientDependencies ELSE NoMap,
          ambientDevDependencies |->
            IF opts.ambient /\ opts.dev THEN json.ambientDevDependencies ELSE NoMap]

\* The maps the handler of task t holds once it has read the manifest.
expandedMaps(t) == IF t.expanded THEN selectMaps(t.kind, fs[t.src], t.options) ELSE NoMaps

\* The candidates of entry k of map m of the manifest task t expands.
Candidates(t, m, k) ==
  IF t.kind = PROJECT_NAME THEN arrify(Value(expandedMaps(t)[m], k)) ELSE <<Dep(t.kind, <<k>>)>>

\* A reduce that resolves every candidate, found or not.
continueAlways(tree) == TRUE

\* Continue trying to resolve when the dependency is missing.
continueTrying(tree) == tree.missing

\* The reduce over the candidates of entry (m, k) of task id, from candidate c
\* on with the tree r obtained so far: "start" when candidate c is to be
\* resolved next, "pending" while it is being resolved, "rejected" when it
\* failed, "done" with the entry's node when no candidate is left to try.
RECURSIVE Reduce(_, _, _, _, _, _)
Reduce(w, id, cands, step, c, r) ==
  LET cid == Append(id, [step EXCEPT !.c = c])
  IN  CASE c > Len(cands) -> [state |-> "done", node |-> r, c |-> c]
        [] ~continueTrying(w.nodes[r]) -> Reduce(w, id, cands, step, c + 1, r)
        [] cid \notin DOMAIN w.tasks -> [state |-> "start", node |-> r, c |-> c]
        [] w.tasks[cid].phase = "rejected" -> [state |-> "rejected", node |-> r, c |-> c]
        [] w.tasks[cid].phase # "resolved" -> [state |-> "pending", node |-> r, c |-> c]
        [] OTHER -> Reduce(w, id, cands, step, c + 1, cid)

Entry(w, id, m, k) == Reduce(w, id, Candidates(w.tasks[id], m, k), Step(m, k, 0), 1, MISSING)

OverlayStep == Step("overlay", CONFIG_FILE, 1)

\* The entries of the maps a task expands, in the order they are started.
RECURSIVE EntriesFrom(_, _)
EntriesFrom(maps, i) ==
  IF i > Len(MapNames) THEN <<>>
  ELSE [j \in 1..Len(maps[MapNames[i]]) |-> Step(MapNames[i], maps[MapNames[i]][j].k, 1)]
         \o EntriesFrom(maps, i + 1)

Entries(t) == EntriesFrom(expandedMaps(t), 1)

\* The node the rejection handler of a reader without a manifest returns.
missingDependency(fn) ==
  CASE fn = "resolveBowerDependencies" -> [MissingNode EXCEPT !.type = "bower"]
    [] fn = "resolveBowerDependency"   -> [MissingNode EXCEPT !.type = "bower"]
    [] fn = "resolveNpmDependencies"   -> [MissingNode EXCEPT !.type = "npm"]
    [] fn = "resolveNpmDependency"     -> [MissingNode EXCEPT !.type = "npm"]
    [] OTHER                           -> MissingNode

\* The node the rejection handler of readJson(src) / readConfigFrom(src) returns.
\* The missing node without the parent.
missingOrphan(kind, src, parent) ==
  [MissingNode EXCEPT !.type = kind, !.src = src]

missingManifest(kind, src, parent) ==
  [MissingNode EXCEPT !.type = kind, !.src = src, !.parent = parent]

Resolved(w, id, node) ==
  [w EXCEPT !.tasks = [w.tasks EXCEPT ![id].phase = "resolved"],
            !.nodes = (id :> node) @@ w.nodes]

Replace(w, id, st) == Put([w EXCEPT !.tasks = [j \in DOMAIN w.tasks \ {id} |-> w.tasks[j]]], id, st)

----------------------------------------------------------------------------
(* resolveDependencies(options): the three readers are started.            *)

Quiescent ==
  /\ result.state # "pending"
  /\ \A i \in DOMAIN tasks : tasks[i].phase \in {"resolved", "rejected"}
  /\ \A i \in DOMAIN tasks : \A j \in 1..Len(Entries(tasks[i])) :
       tasks[i].kind = PROJECT_NAME =>
         Entry(World, i, Entries(tasks[i])[j].m, Entries(tasks[i])[j].k).state # "start"

resolveDependencies(opts) ==
  /\ Quiescent
  /\ options' = opts
  /\ tasks' = (BowerTask :> Task("resolveBowerDependencies", "findUp", "bower", NoPath,
                                 <<"bower.json">>, opts, NoParent, NoPath))
           @@ (NpmTask :> Task("resolveNpmDependencies", "findUp", "npm", NoPath,
                               <<"package.json">>, opts, NoParent, NoPath))
           @@ (NativeTask :> Task("resolveTypeDependencies", "findUp", PROJECT_NAME, NoPath,
                                  <<CONFIG_FILE>>, opts, NoParent, NoPath))
  /\ nodes' = (MISSING :> MissingNode)
  /\ result' = [state |-> "pending", value |-> NoParent]
  /\ reads' = {}
  /\ checked' = {}
  /\ thrown' = {}
  /\ earlier' = (earlier \/ result.state = "fulfilled")
  /\ previous' = [set |-> result.state # "idle" /\ opts = options, state |-> result.state,
                  nodes |-> nodes, heap |-> DEFAULT_DEPENDENCY]
  /\ UNCHANGED <<fs, DEFAULT_DEPENDENCY, before, others>>

----------------------------------------------------------------------------
(* findUp / findConfigFile settles.                                        *)

FindUpDone(id) ==
  /\ id \in DOMAIN tasks
  /\ tasks[id].phase = "findUp"
  /\ LET t     == tasks[id]
         found == IF t.fn = "resolveTypeDependencies"
                  THEN findConfigFile(fs, t.options.cwd)
                  ELSE findUp(fs, t.options.cwd, t.name)
     IN  CASE found = NoPath ->
                Commit(Resolved(World, id, missingDependency(t.fn)))
           [] found # NoPath /\ t.fn = "resolveBowerDependencies" ->
                Commit([World EXCEPT !.tasks = [tasks EXCEPT ![id].phase = "bowerrc",
                                                              ![id].src = found]])
           [] found # NoPath /\ t.fn = "resolveNpmDependency" /\ isDefinition(found) ->
                Commit(Replace(World, id,
                               resolveFileDependency(nodes, t.fn, found, t.options, t.parent)))
           [] OTHER ->
                Commit(Replace(World, id,
                               InHandler(t.fn, t.kind,
                                         DependencyFrom(nodes, t.kind, t.fn, found, NoPath,
                                                        t.options, t.parent))))
  /\ UNCHANGED <<fs, options, DEFAULT_DEPENDENCY, earlier, before, previous, others>>

----------------------------------------------------------------------------
(* resolveBowerComponentPath: the read of .bowerrc settles, either way.    *)

resolveBowerComponentPath(f, path) ==
  IF readJsonOk(f, resolve(path, <<".bowerrc">>))
  THEN resolve(path, OrElse(f[resolve(path, <<".bowerrc">>)].directory,
                            Str(<<"bower_components">>)).v)
  ELSE resolve(path, <<"bower_components">>)

BowerrcDone(id) ==
  /\ id \in DOMAIN tasks
  /\ tasks[id].phase = "bowerrc"
  /\ LET t == tasks[id]
         componentPath == resolveBowerComponentPath(fs,
                            IF t.fn = "resolveBowerDependencies" THEN dirname(t.src)
                            ELSE t.options.cwd)
         modulePath == resolve(componentPath, t.name)
     IN  CASE t.fn = "resolveBowerDependencies" ->
                Commit(Replace(World, id,
                               DependencyFrom(nodes, "bower", t.fn, t.src, componentPath,
                                              t.options, NoParent)))
           [] t.fn # "resolveBowerDependencies" /\ isDefinition(modulePath) ->
                Commit(Replace(World, id,
                               resolveFileDependency(nodes, t.fn, modulePath, t.options, t.parent)))
           [] OTHER ->
                Commit(Replace(World, id,
                               InHandler(t.fn, "bower",
                                         DependencyFrom(nodes, "bower", t.fn, modulePath,
                                                        componentPath, t.options, t.parent))))
  /\ UNCHANGED <<fs, options, DEFAULT_DEPENDENCY, earlier, before, previous, others>>

----------------------------------------------------------------------------
(* readJson(src) / readConfigFrom(src) settles: the node of the manifest   *)
(* is created and its dependency maps are expanded.                        *)

\* The tree each reader builds from its manifest.
manifestTree(kind, json, src, parent) ==
  CASE kind = "bower" ->
         [DefaultNode EXCEPT !.name = json.name, !.version = json.version,
            !.main = json.main, !.browser = json.browser, !.typings = json.typings,
            !.browserTypings = json.browserTypings, !.type = "bower", !.src = src,
            !.parent = parent]
    [] kind = "npm" ->
         [DefaultNode EXCEPT !.name = json.name, !.version = json.version,
            !.main = OrElse(json.main, Str(<<"index.js">>)), !.browser = json.browser,
            !.typings = json.typings, !.browserTypings = json.browserTypings,
            !.type = "npm", !.src = src, !.parent = parent]
    [] OTHER ->
         [DefaultNode EXCEPT !.name = json.name, !.main = json.main,
            !.browser = json.browser, !.typings = json.typings,
            !.browserTypings = json.browserTypings, !.ambient = json.ambient,
            !.type = PROJECT_NAME, !.src = src, !.parent = parent]

\* Children that inherit dev and ambient from their parent.
childOptionsInherited(kind, opts, src) ==
  IF kind = "bower" THEN opts ELSE [opts EXCEPT !.cwd = dirname(src)]

\* The options resolve{Npm,Bower,Type}DependencyMap hand to the children of
\* the manifest at src: bower keeps the cwd.
childOptions(kind, opts, src) ==
  IF kind = "bower" THEN [opts EXCEPT !.dev = FALSE, !.ambient = FALSE]
  ELSE [opts EXCEPT !.dev = FALSE, !.ambient = FALSE, !.cwd = dirname(src)]

\* The call that resolves the first candidate of entry e of the manifest of
\* task id, in world w.
childStart(w, id, e) ==
  LET t == w.tasks[id]
      o == childOptions(t.kind, t.options, t.src)
  IN  CASE t.kind = "bower" ->
             DependencyFrom(w.nodes, "bower", "resolveBowerDependencyFrom",
                            resolve(t.componentPath, <<e.k, "bower.json">>),
                            t.componentPath, o, id)
        [] t.kind = "npm" -> resolveNpmDependency(<<e.k, "package.json">>, o, id)
        [] OTHER -> resolveDependency(w.nodes, Candidates(t, e.m, e.k)[1], o, id)

\* resolveTypeDependencyFrom(join(src, '..', CONFIG_FILE), options, tree)
overlayStart(w, id) ==
  DependencyFrom(w.nodes, PROJECT_NAME, "resolveTypeDependencyFrom",
                 join(w.tasks[id].src, <<"..", CONFIG_FILE>>), NoPath, w.tasks[id].options, id)

\* The children of task id started one after the other.  A call made by the
\* handler itself (sync) that throws ends the handler: nothing after it is
\* started (the call is kept as a rejected task, for its src).  The first candidate of a native entry is started by the
\* callback of the entry's reduce, whose throw rejects that entry only.
RECURSIVE StartChildren(_, _, _, _)
StartChildren(w, id, es, i) ==
  IF i > Len(es) THEN [w |-> w, threw |-> FALSE]
  ELSE LET e    == es[i]
           sync == w.tasks[id].kind = "bower" \/ e = OverlayStep
           none == /\ e # OverlayStep
                   /\ w.tasks[id].kind = PROJECT_NAME
                   /\ Entry(w, id, e.m, e.k).state # "start"
           st   == IF e = OverlayStep THEN overlayStart(w, id) ELSE childStart(w, id, e)
           cid  == Append(id, e)
       IN  CASE none -> StartChildren(w, id, es, i + 1)
             [] ~none /\ sync /\ st.threw -> [w |-> Put(w, cid, st), threw |-> TRUE]
             [] OTHER -> StartChildren(Put(w, cid, st), id, es, i + 1)

ReadDone(id) ==
  /\ id \in DOMAIN tasks
  /\ tasks[id].phase = "readJson"
  /\ Len(id) < MaxDepth
  /\ LET t    == tasks[id]
         ok   == IF t.kind = PROJECT_NAME THEN readConfigFromOk(fs, t.src)
                 ELSE readJsonOk(fs, t.src)
         json == fs[t.src]
         w1   == [World EXCEPT
                    !.tasks = [tasks EXCEPT ![id].phase = "all", ![id].expanded = TRUE],
                    !.nodes = (id :> manifestTree(t.kind, json, t.src, t.parent)) @@ nodes]
         es   == IF t.kind = PROJECT_NAME THEN Entries(w1.tasks[id])
                 ELSE Append(Entries(w1.tasks[id]), OverlayStep)
         sc   == StartChildren(w1, id, es, 1)
     IN  CASE ~ok -> Commit(Resolved(World, id, missingManifest(t.kind, t.src, t.parent)))
           [] ok /\ ~sc.threw -> Commit(sc.w)
           [] ok /\ sc.threw /\ thenThrow(t.fn) = "missing" ->
                Commit(Resolved(sc.w, id, missingManifest(t.kind, t.src, t.parent)))
           [] OTHER -> Commit([sc.w EXCEPT !.tasks = [sc.w.tasks EXCEPT ![id].phase = "rejected"]])
  /\ UNCHANGED <<fs, options, DEFAULT_DEPENDENCY, earlier, before, previous, others>>

----------------------------------------------------------------------------
(* The callback of the reduce of resolveTypeDependencyMap: the tree so far *)
(* is missing, the next candidate is resolved.                             *)

TryNext(id, e) ==
  /\ id \in DOMAIN tasks
  /\ tasks[id].kind = PROJECT_NAME
  /\ tasks[id].phase \in {"all", "rejected"}
  /\ \E j \in 1..Len(Entries(tasks[id])) : Entries(tasks[id])[j] = e
  /\ LET r == Entry(World, id, e.m, e.k)
         t == tasks[id]
     IN  /\ r.state = "start"
         /\ Commit(Put(World, Append(id, [e EXCEPT !.c = r.c]),
                       resolveDependency(nodes, Candidates(t, e.m, e.k)[r.c],
                                         childOptions(t.kind, t.options, t.src), id)))
  /\ UNCHANGED <<fs, options, DEFAULT_DEPENDENCY, earlier, before, previous, others>>

----------------------------------------------------------------------------
(* Promise.all of a manifest's maps is fulfilled: the maps are stored in   *)
(* the tree, which fulfils the task.                                       *)

\* Promise.all(keys.map(...)).then(partial(zipObject, keys)) for map m.
resolvedMap(w, id, m) ==
  LET es == expandedMaps(w.tasks[id])[m]
  IN  zipObject(Keys(es), [i \in 1..Len(es) |-> Entry(w, id, m, es[i].k).node])

\* The four map fields the handler of Promise.all leaves in the tree:
\* the maps resolved from the manifest, for npm and bower under those of the
\* typings.json beside it (typedPackage).
treeMaps(d, kind, tree, maps, typedPackage) ==
  IF kind = PROJECT_NAME
  THEN [tree EXCEPT !.dependencies = Own(maps.dependencies),
                    !.devDependencies = Own(maps.devDependencies),
                    !.ambientDependencies = Own(maps.ambientDependencies),
                    !.ambientDevDependencies = Own(maps.ambientDevDependencies)]
  ELSE [tree EXCEPT !.dependencies =
                       Own(extend(maps.dependencies, MapOf(d, typedPackage, "dependencies"))),
                    !.devDependencies =
                       Own(extend(maps.devDependencies, MapOf(d, typedPackage, "devDependencies")))]

\* A join that waits for the overlay and for one entry only.
AnyDone(w, id) ==
  /\ Entries(w.tasks[id]) # <<>> =>
       \E j \in 1..Len(Entries(w.tasks[id])) :
         Entry(w, id, Entries(w.tasks[id])[j].m, Entries(w.tasks[id])[j].k).state = "done"
  /\ w.tasks[id].kind # PROJECT_NAME =>
       /\ Append(id, OverlayStep) \in DOMAIN w.tasks
       /\ w.tasks[Append(id, OverlayStep)].phase = "resolved"

\* A join that waits for the overlay and for the entries of dependencies,
\* not for those of the other maps.
DependenciesDone(w, id) ==
  /\ \A j \in 1..Len(Entries(w.tasks[id])) :
       Entries(w.tasks[id])[j].m = "dependencies" =>
         Entry(w, id, Entries(w.tasks[id])[j].m, Entries(w.tasks[id])[j].k).state = "done"
  /\ w.tasks[id].kind # PROJECT_NAME =>
       /\ Append(id, OverlayStep) \in DOMAIN w.tasks
       /\ w.tasks[Append(id, OverlayStep)].phase = "resolved"

AllDone(w, id) ==
  /\ \A j \in 1..Len(Entries(w.tasks[id])) :
       Entry(w, id, Entries(w.tasks[id])[j].m, Entries(w.tasks[id])[j].k).state = "done"
  /\ w.tasks[id].kind # PROJECT_NAME =>
       /\ Append(id, OverlayStep) \in DOMAIN w.tasks
       /\ w.tasks[Append(id, OverlayStep)].phase = "resolved"

Join(id) ==
  /\ id \in DOMAIN tasks
  /\ tasks[id].phase = "all"
  /\ AllDone(World, id)
  /\ LET t == tasks[id]
         maps == [m \in MapNameSet |-> resolvedMap(World, id, m)]
         typedPackage == IF t.kind = PROJECT_NAME THEN MissingNode
                         ELSE nodes[Append(id, OverlayStep)]
     IN  Commit(Resolved(World, id,
                         treeMaps(DEFAULT_DEPENDENCY, t.kind, nodes[id], maps, typedPackage)))
  /\ UNCHANGED <<fs, options, DEFAULT_DEPENDENCY, earlier, before, previous, others>>

----------------------------------------------------------------------------
(* Promise.all of the three readers is fulfilled: mergeDependencies.       *)

\* A test for any value at all, a mapping included.
definesAnyEntry(tree) ==
  \/ typeof(tree.main) # "undefined"
  \/ typeof(tree.browser) # "undefined"
  \/ typeof(tree.typings) # "undefined"
  \/ typeof(tree.browserTypings) # "undefined"

\* typeof main === 'string' || typeof browser === 'string' || ...
definesEntry(tree) ==
  \/ typeof(tree.main) = "string"
  \/ typeof(tree.browser) = "string"
  \/ typeof(tree.typings) = "string"
  \/ typeof(tree.browserTypings) = "string"

\* A merge that assigns the entries into the map object the root holds,
\* instead of giving the root a new object.
mergeOneInPlace(acc, dependencyTree) ==
  LET dep0 == acc.dependency
      dep1 == IF definesEntry(dependencyTree)
              THEN [dep0 EXCEPT !.name = dependencyTree.name, !.src = dependencyTree.src,
                                !.main = dependencyTree.main,
                                !.browser = dependencyTree.browser,
                                !.typings = dependencyTree.typings,
                                !.browserTypings = dependencyTree.browserTypings]
              ELSE dep0
      merged == {"dependencies", "devDependencies", "ambientDependencies"}
      into(m) == extend(MapOf(acc.heap, dep0, m), MapOf(acc.heap, dependencyTree, m))
  IN  [dependency |->
         [f \in DOMAIN dep1 |->
            IF f \in merged /\ ~dep1[f].shared THEN Own(into(f)) ELSE dep1[f]],
       heap |->
         [m \in MapNameSet |->
            IF m \in merged /\ dep0[m].shared THEN into(m) ELSE acc.heap[m]]]

\* A merge that takes ambient along with the entries of a tree, and missing
\* from any tree.
mergeOneWithFlags(acc, dependencyTree) ==
  LET dep0 == acc.dependency
      dep1 == IF definesEntry(dependencyTree)
              THEN [dep0 EXCEPT !.name = dependencyTree.name, !.src = dependencyTree.src,
                                !.main = dependencyTree.main,
                                !.browser = dependencyTree.browser,
                                !.typings = dependencyTree.typings,
                                !.browserTypings = dependencyTree.browserTypings,
                                !.ambient = dependencyTree.ambient]
              ELSE dep0
      merged(m) == Own(extend(MapOf(acc.heap, dep0, m), MapOf(acc.heap, dependencyTree, m)))
  IN  [dependency |-> [dep1 EXCEPT !.missing = dep0.missing \/ dependencyTree.missing,
                                   !.dependencies = merged("dependencies"),
                                   !.devDependencies = merged("devDependencies"),
                                   !.ambientDependencies = merged("ambientDependencies")],
       heap |-> acc.heap]

\* One turn of the forEach of mergeDependencies: [dependency, heap].
mergeOne(acc, dependencyTree) ==
  LET dep0 == acc.dependency
      dep1 == IF definesEntry(dependencyTree)
              THEN [dep0 EXCEPT !.name = dependencyTree.name, !.src = dependencyTree.src,
                                !.main = dependencyTree.main,
                                !.browser = dependencyTree.browser,
                                !.typings = dependencyTree.typings,
                                !.browserTypings = dependencyTree.browserTypings]
              ELSE dep0
      merged(m) == Own(extend(MapOf(acc.heap, dep0, m), MapOf(acc.heap, dependencyTree, m)))
  IN  [dependency |-> [dep1 EXCEPT !.dependencies = merged("dependencies"),
                                   !.devDependencies = merged("devDependencies"),
                                   !.ambientDependencies = merged("ambientDependencies")],
       heap |-> acc.heap]

RECURSIVE mergeFrom(_, _, _)
mergeFrom(acc, trees, i) ==
  IF i > Len(trees) THEN acc ELSE mergeFrom(mergeOne(acc, trees[i]), trees, i + 1)

\* mergeDependencies(trees), in heap d: the node returned and the heap left.
mergeDependencies(d, trees) == mergeFrom([dependency |-> DefaultNode, heap |-> d], trees, 1)

Merge ==
  /\ result.state = "pending"
  /\ \A i \in TopTasks : i \in DOMAIN tasks /\ tasks[i].phase = "resolved"
  /\ LET r == mergeDependencies(DEFAULT_DEPENDENCY,
                                <<nodes[BowerTask], nodes[NpmTask], nodes[NativeTask]>>)
     IN  /\ nodes' = (ROOT :> r.dependency) @@ nodes
         /\ DEFAULT_DEPENDENCY' = r.heap
  /\ result' = [state |-> "fulfilled", value |-> ROOT]
  /\ UNCHANGED <<fs, options, tasks, reads, checked, thrown, earlier, before, previous, others>>

----------------------------------------------------------------------------
(* Between two calls made with dev = false the devDependencies of the root *)
(* manifests are removed from the project.                                 *)

\* The manifests the three readers found, and the native configs beside them.
RootManifests ==
  LET found == {nodes[t].src : t \in {u \in TopTasks : u \in DOMAIN nodes}} \ {NoPath}
  IN  {p \in found \cup {join(q, <<"..", CONFIG_FILE>>) : q \in found} :
         Exists(fs, p) /\ fs[p].kind = "json"}

removeDevDependencies(f, ps) ==
  [p \in DOMAIN f |-> IF p \in ps THEN [f[p] EXCEPT !.devDependencies = NoMap] ELSE f[p]]

EditDevDependencies ==
  /\ Quiescent
  /\ result.state = "fulfilled"
  /\ ~options.dev
  /\ ~before.set
  /\ removeDevDependencies(fs, RootManifests) # fs
  /\ fs' = removeDevDependencies(fs, RootManifests)
  /\ before' = [set |-> TRUE, options |-> options, nodes |-> nodes,
                heap |-> DEFAULT_DEPENDENCY]
  /\ previous' = [previous EXCEPT !.set = FALSE]
  /\ UNCHANGED <<options, tasks, nodes, DEFAULT_DEPENDENCY, result, reads, checked, thrown,
                 earlier, others>>

----------------------------------------------------------------------------
(* The inputs of the model: a file system (with the network) and the       *)
(* options of the call.  The project lives in /p, the call is made in /p/w.*)

Cwd == <<"/", "p", "w">>

Up(name) == <<"/", "p", name>>

InCwd(name) == <<"/", "p", "w", name>>

NodeModule(pkg, name) == <<"/", "p", "w", "node_modules", pkg, name>>

Component(c, name) == <<"/", "p", "bower_components", c, name>>

Url(name) == <<"http:", "h", name>>

File(p, content) == p :> content

NoFiles == [p \in {} |-> EmptyJson]

\* A manifest that is absent, present with a text that is no JSON, or present.
Maybe(how, p, json) ==
  CASE how = "absent" -> NoFiles
    [] how = "text"   -> File(p, NotJson)
    [] OTHER          -> File(p, json)

Opts(d, a) == [cwd |-> Cwd, dev |-> d, ambient |-> a]

AllOptions == {Opts(d, a) : d \in BOOLEAN, a \in BOOLEAN}

Input(f, o) == [fs |-> f, options |-> o]

Definition(name) == One(Dep("file", <<name>>))

\* Every combination of present and absent root manifests, and each of them
\* unreadable; none declares a dependency.
RootInputs ==
  LET bower  == [EmptyJson EXCEPT !.name = Str(<<"bow">>), !.main = Str(<<"bow.js">>)]
      npm    == [EmptyJson EXCEPT !.name = Str(<<"pkg">>)]
      native == [EmptyJson EXCEPT !.name = Str(<<"typ">>), !.typings = Str(<<"typ.d.ts">>),
                                  !.ambient = TRUE]
      hows   == {<<b, n, t>> : b \in {"absent", "json"}, n \in {"absent", "json"},
                               t \in {"absent", "json"}}
                  \cup {<<"text", "absent", "absent">>, <<"absent", "text", "absent">>,
                        <<"absent", "absent", "text">>}
  IN  {Input(Maybe(h[1], Up("bower.json"), bower)
             @@ Maybe(h[2], InCwd("package.json"), npm)
             @@ Maybe(h[3], InCwd(CONFIG_FILE), native), Opts(FALSE, FALSE)) : h \in hows}

\* Three root manifests that declare entry files in every way and the same
\* dependency key; the native one fills each of its four maps.
MergeInputs ==
  LET bower(e)  == [EmptyJson EXCEPT !.name = Str(<<"bow">>),
                      !.main = IF e = "main" THEN Str(<<"bow.js">>) ELSE Undefined,
                      !.dependencies = <<Ver("k")>>]
      npm       == [EmptyJson EXCEPT !.name = Str(<<"pkg">>), !.browser = Obj(<<"pkg-map">>)]
      native(e) == [EmptyJson EXCEPT !.name = Str(<<"typ">>),
                      !.typings = IF e = "typings" THEN Str(<<"typ.d.ts">>) ELSE Undefined,
                      !.browser = IF e = "browser" THEN Obj(<<"typ-map">>) ELSE Undefined,
                      !.dependencies = <<Ent("k", Definition("x.d.ts"))>>,
                      !.devDependencies = <<Ent("kd", Definition("y.d.ts"))>>,
                      !.ambientDependencies = <<Ent("g", Definition("x.d.ts"))>>,
                      !.ambientDevDependencies = <<Ent("h", Definition("y.d.ts"))>>]
  IN  {Input(File(Up("bower.json"), bower(b))
             @@ Maybe(n, Up("package.json"), npm)
             @@ File(InCwd(CONFIG_FILE), native(t)), o) :
         b \in {"none", "main"}, n \in {"absent", "json"},
         t \in {"none", "typings", "browser"}, o \in AllOptions}

\* A native entry with every list of at most MaxCandidates candidates, each
\* an absent manifest, a manifest or a definition file; candidate i lives in
\* /p/w/c, /p/w/c/c, ...; a list of one is also given as a plain string.
CandidateKinds == {"absent", "json", "dts"}

CandidateDir(i) == [j \in 1..i |-> "c"]

Candidate(kinds, i) ==
  Dep("file", Append(CandidateDir(i), IF kinds[i] = "dts" THEN "x.d.ts" ELSE CONFIG_FILE))

RECURSIVE CandidateFiles(_, _)
CandidateFiles(kinds, i) ==
  IF i > Len(kinds) THEN NoFiles
  ELSE (IF kinds[i] = "json"
        THEN File(Cwd \o Append(CandidateDir(i), CONFIG_FILE),
                  [EmptyJson EXCEPT !.name = Str(CandidateDir(i))])
        ELSE NoFiles) @@ CandidateFiles(kinds, i + 1)

CandidateInputs ==
  LET lists == UNION {[1..n -> CandidateKinds] : n \in 0..MaxCandidates}
      value(kinds, form) ==
        IF form = "string" THEN One(Candidate(kinds, 1))
        ELSE Many([i \in 1..Len(kinds) |-> Candidate(kinds, i)])
      native(kinds, form) ==
        [EmptyJson EXCEPT !.name = Str(<<"typ">>),
                          !.dependencies = <<Ent("k", value(kinds, form))>>]
  IN  {Input(File(InCwd(CONFIG_FILE), native(kinds, "array")) @@ CandidateFiles(kinds, 1),
             Opts(FALSE, FALSE)) : kinds \in lists}
      \cup {Input(File(InCwd(CONFIG_FILE), native(kinds, "string")) @@ CandidateFiles(kinds, 1),
                  Opts(FALSE, FALSE)) : kinds \in [1..1 -> CandidateKinds]}

\* Dependency graphs with and without a cycle, in each ecosystem.
CycleInputs ==
  LET named(n)    == [EmptyJson EXCEPT !.name = Str(<<n>>)]
      file(k, to) == Ent(k, One(Dep("file", to)))
      \* /p/w/typings.json -> t, s;  t -> back to the root, or on to s
      nativeBack(back) ==
        File(InCwd(CONFIG_FILE),
             [named("typ") EXCEPT !.dependencies = <<file("t", <<"t", CONFIG_FILE>>),
                                                     file("s", <<"s", CONFIG_FILE>>)>>])
        @@ File(Cwd \o <<"t", CONFIG_FILE>>,
                [named("t") EXCEPT !.dependencies =
                   <<file("r", IF back THEN <<"..", CONFIG_FILE>> ELSE <<"..", "s", CONFIG_FILE>>)>>])
        @@ File(Cwd \o <<"s", CONFIG_FILE>>, named("s"))
      \* /p/w/typings.json -> t -> u -> t
      nativeLoop ==
        File(InCwd(CONFIG_FILE),
             [named("typ") EXCEPT !.dependencies = <<file("t", <<"t", CONFIG_FILE>>)>>])
        @@ File(Cwd \o <<"t", CONFIG_FILE>>,
                [named("t") EXCEPT !.dependencies = <<file("u", <<"..", "u", CONFIG_FILE>>)>>])
        @@ File(Cwd \o <<"u", CONFIG_FILE>>,
                [named("u") EXCEPT !.dependencies = <<file("t", <<"..", "t", CONFIG_FILE>>)>>])
      \* package.json -> a -> b, and b -> a or nothing
      npmLoop(back) ==
        File(InCwd("package.json"), [named("pkg") EXCEPT !.dependencies = <<Ver("a")>>])
        @@ File(NodeModule("a", "package.json"),
                [named("a") EXCEPT !.dependencies = <<Ver("b")>>])
        @@ File(NodeModule("b", "package.json"),
                [named("b") EXCEPT !.dependencies = IF back THEN <<Ver("a")>> ELSE NoMap])
      \* bower.json -> c -> d, and d -> e, c, f or e, f
      bowerLoop(back) ==
        File(Up("bower.json"), [named("bow") EXCEPT !.dependencies = <<Ver("c")>>])
        @@ File(Component("c", "bower.json"),
                [named("c") EXCEPT !.dependencies = <<Ver("d")>>])
        @@ File(Component("d", "bower.json"),
                [named("d") EXCEPT !.dependencies =
                   IF back THEN <<Ver("e"), Ver("c"), Ver("f")>> ELSE <<Ver("e"), Ver("f")>>])
      \* typings.json -> npm a, whose typings.json -> npm a
      overlayLoop ==
        File(InCwd(CONFIG_FILE),
             [named("typ") EXCEPT !.dependencies =
                <<Ent("n", One(Dep("npm", <<"a", "package.json">>)))>>])
        @@ File(NodeModule("a", "package.json"), named("a"))
        @@ File(NodeModule("a", CONFIG_FILE),
                [named("a-typed") EXCEPT !.dependencies =
                   <<Ent("self", One(Dep("npm", <<"a", "package.json">>)))>>])
      \* typings.json -> node_modules/a/typings.json -> npm a, whose overlay it is
      besideLoop ==
        File(InCwd(CONFIG_FILE),
             [named("typ") EXCEPT !.dependencies =
                <<file("q", <<"node_modules", "a", CONFIG_FILE>>)>>])
        @@ File(NodeModule("a", "package.json"), named("a"))
        @@ File(NodeModule("a", CONFIG_FILE),
                [named("a-typed") EXCEPT !.dependencies =
                   <<Ent("n", One(Dep("npm", <<"a", "package.json">>)))>>])
  IN  {Input(f, Opts(FALSE, FALSE)) :
         f \in {nativeBack(TRUE), nativeBack(FALSE), nativeLoop, npmLoop(TRUE), npmLoop(FALSE),
                bowerLoop(TRUE), bowerLoop(FALSE), overlayLoop, besideLoop}}

\* An npm (or bower) root with a native config beside it, which is also the
\* native root; the dependency a has (or lacks) a native config of its own.
OverlayInputs ==
  LET named(n) == [EmptyJson EXCEPT !.name = Str(<<n>>)]
      root(eco) == [named(eco) EXCEPT
                      !.dependencies = <<Ver("a")>>,
                      !.optionalDependencies = IF eco = "npm" THEN <<Ver("o")>> ELSE NoMap,
                      !.devDependencies = <<Ver("b")>>]
      beside == [named("typ") EXCEPT
                   !.typings = Str(<<"typ.d.ts">>),
                   !.dependencies = <<Ent("a", Definition("x.d.ts")), Ent("e", Definition("y.d.ts"))>>,
                   !.devDependencies = <<Ent("b", Definition("y.d.ts"))>>,
                   !.ambientDependencies = <<Ent("g", Definition("x.d.ts"))>>,
                   !.ambientDevDependencies = <<Ent("h", Definition("y.d.ts"))>>]
      besideA == [named("a-typed") EXCEPT
                    !.dependencies = <<Ent("e", Definition("x.d.ts"))>>,
                    !.devDependencies = <<Ent("z", Definition("y.d.ts"))>>,
                    !.ambientDependencies = <<Ent("g", Definition("y.d.ts"))>>]
      npm(o, oa) ==
        File(InCwd("package.json"), root("npm"))
        @@ Maybe(o, InCwd(CONFIG_FILE), beside)
        @@ File(NodeModule("a", "package.json"), named("a"))
        @@ Maybe(oa, NodeModule("a", CONFIG_FILE), besideA)
      bower(o, oa) ==
        File(InCwd("bower.json"), root("bower"))
        @@ Maybe(o, InCwd(CONFIG_FILE), beside)
        @@ File(<<"/", "p", "w", "bower_components", "a", "bower.json">>, named("a"))
        @@ Maybe(oa, <<"/", "p", "w", "bower_components", "a", CONFIG_FILE>>, besideA)
  IN  {Input(npm(o, oa), opt) : o \in {"absent", "text", "json"}, oa \in {"absent", "json"},
                                opt \in AllOptions}
      \cup {Input(bower(o, "json"), opt) : o \in {"absent", "json"}, opt \in AllOptions}

\* Dependencies whose location ends in .d.ts: a file, a URL, the located path
\* of an npm and of a bower dependency, and a path relative to a manifest
\* fetched over HTTP; the files exist or do not.
DefinitionInputs ==
  LET native ==
        [EmptyJson EXCEPT !.name = Str(<<"typ">>),
           !.dependencies = <<Ent("f", Definition("x.d.ts")),
                              Ent("u", One(Dep("http", Url("x.d.ts")))),
                              Ent("n", One(Dep("npm", <<"a", "index.d.ts">>))),
                              Ent("b", One(Dep("bower", <<"c", "index.d.ts">>))),
                              Ent("w", One(Dep("http", Url(CONFIG_FILE))))>>]
      remote == [EmptyJson EXCEPT !.name = Str(<<"remote">>),
                                  !.dependencies = <<Ent("r", Definition("y.d.ts"))>>]
      text   == [EmptyJson EXCEPT !.kind = "text"]
      files(there) ==
        File(InCwd(CONFIG_FILE), native) @@ File(Url(CONFIG_FILE), remote)
        @@ (IF there
            THEN File(InCwd("x.d.ts"), text) @@ File(NodeModule("a", "index.d.ts"), text)
                 @@ File(Url("y.d.ts"), text)
            ELSE NoFiles)
  IN  {Input(files(there), Opts(FALSE, FALSE)) : there \in BOOLEAN}

\* Manifests that exist and cannot be fetched or parsed: a local native
\* config and a package.json that are no JSON, a URL answered with a status
\* other than 200; beside them a manifest that is absent and one that is read.
TransportInputs ==
  LET native(deps) == [EmptyJson EXCEPT !.name = Str(<<"typ">>), !.dependencies = deps]
      file(k, to)  == Ent(k, One(Dep("file", to)))
      local  == File(InCwd(CONFIG_FILE),
                     native(<<file("t", <<"t", CONFIG_FILE>>), file("s", <<"s", CONFIG_FILE>>),
                              file("z", <<"z", CONFIG_FILE>>)>>))
                @@ File(Cwd \o <<"t", CONFIG_FILE>>, NotJson)
                @@ File(Cwd \o <<"s", CONFIG_FILE>>, native(NoMap))
      remote == File(InCwd(CONFIG_FILE),
                     native(<<Ent("w", One(Dep("http", Url(CONFIG_FILE)))),
                              Ent("n", One(Dep("npm", <<"a", "package.json">>)))>>))
                @@ File(Url(CONFIG_FILE), NotOk)
                @@ File(NodeModule("a", "package.json"), NotJson)
  IN  {Input(local, Opts(FALSE, FALSE)), Input(remote, Opts(FALSE, FALSE))}

Inputs ==
  RootInputs \cup MergeInputs \cup CandidateInputs \cup CycleInputs \cup OverlayInputs
    \cup DefinitionInputs \cup TransportInputs

----------------------------------------------------------------------------
(* transformFile (utils/fs): the calls made on one path.  The text of the  *)
(* file is the sequence of the entries the transforms have put in it.      *)

\* The callers of the model, and how often lock() finds the lockfile taken
\* before it gives up (lockOptions.retries is 25).
MaxCallers == 2
MaxRetries == 2

Callers == 1..MaxCallers

NoHolder == 0

\* A caller that has not called yet.
NoCall ==
  [pc |-> "idle", tries |-> 0, contents |-> Undefined, locked |-> FALSE,
   outcome |-> "pending", error |-> "none",
   called |-> FALSE, wrote |-> FALSE, unlocked |-> FALSE, removed |-> NoHolder]

\* The transform of caller c: it adds the caller's entry to the entries read,
\* taking a file that could not be read as empty.
transform(c, contents) ==
  Str(Append(IF typeof(contents) = "undefined" THEN <<>> ELSE contents.v, c))

\* promiseFinally(result, fn) calls fn however result has settled.
thenOnly(outcome) == outcome = "fulfilled"

promiseFinally(outcome) == outcome \in {"fulfilled", "rejected"}

\* transformFile(path, transform): lock(lockfile, lockOptions) is called.
transformFile(c) ==
  /\ callers[c].pc = "idle"
  /\ callers' = [callers EXCEPT ![c].pc = "lock"]
  /\ UNCHANGED <<disk, lockfile, resolverVars, listingVars, compileVars>>

\* lock(): the lockfile is made if there is none; else lock() waits and tries
\* again, and is rejected when no try is left.  The rejection passes the
\* first then() and is taken by the second one's () => handle(undefined).
Lock(c) ==
  /\ callers[c].pc = "lock"
  /\ IF lockfile = NoHolder
     THEN /\ lockfile' = c
          /\ callers' = [callers EXCEPT ![c].pc = "read", ![c].locked = TRUE]
     ELSE /\ lockfile' = lockfile
          /\ callers' =
               IF callers[c].tries < MaxRetries
               THEN [callers EXCEPT ![c].tries = @ + 1]
               ELSE [callers EXCEPT ![c].pc = "transform", ![c].contents = Undefined]
  /\ UNCHANGED <<disk, resolverVars, listingVars, compileVars>>

\* readFile(path, 'utf8'): fulfilled with the text, or rejected (always so
\* when there is no file), and then handle(undefined) is called.
ReadFile(c) ==
  /\ callers[c].pc = "read"
  /\ \E ok \in (IF disk = Undefined THEN {FALSE} ELSE BOOLEAN) :
       callers' = [callers EXCEPT ![c].pc = "transform",
                                  ![c].contents = IF ok THEN disk ELSE Undefined]
  /\ UNCHANGED <<disk, lockfile, resolverVars, listingVars, compileVars>>

\* handle(contents): transform(contents) returns the new text, or throws
\* or is rejected.
Handle(c) ==
  /\ callers[c].pc = "transform"
  /\ \E throws \in BOOLEAN :
       callers' =
         IF throws
         THEN [callers EXCEPT ![c].pc = "unlock", ![c].called = TRUE,
                              ![c].outcome = "rejected", ![c].error = "transform"]
         ELSE [callers EXCEPT ![c].pc = "write", ![c].called = TRUE,
                              ![c].contents = transform(c, callers[c].contents)]
  /\ UNCHANGED <<disk, lockfile, resolverVars, listingVars, compileVars>>

\* writeFile(path, contents), which settles result.
WriteFile(c) ==
  /\ callers[c].pc = "write"
  /\ \E ok \in BOOLEAN :
       IF ok
       THEN /\ disk' = callers[c].contents
            /\ callers' = [callers EXCEPT ![c].pc = "unlock", ![c].wrote = TRUE,
                                          ![c].outcome = "fulfilled"]
       ELSE /\ disk' = disk
            /\ callers' = [callers EXCEPT ![c].pc = "unlock",
                                          ![c].outcome = "rejected", ![c].error = "write"]
  /\ UNCHANGED <<lockfile, resolverVars, listingVars, compileVars>>

\* promiseFinally(result, () => unlock(lockfile)): lockfile.unlock removes
\* the file whoever made it, and reports no error.
Unlock(c) ==
  /\ callers[c].pc = "unlock"
  /\ IF promiseFinally(callers[c].outcome)
     THEN /\ lockfile' = NoHolder
          /\ callers' = [callers EXCEPT ![c].pc = "done", ![c].unlocked = TRUE,
                                        ![c].removed = lockfile]
     ELSE /\ lockfile' = lockfile
          /\ callers' = [callers EXCEPT ![c].pc = "done"]
  /\ UNCHANGED <<disk, resolverVars, listingVars, compileVars>>

----------------------------------------------------------------------------
(* writeDependency and removeDependency (utils/fs): calls made one after   *)
(* the other.  A listing is the sequence of the paths of its reference     *)
(* directives, each relative to the typings directory.                     *)

\* The calls of a run.
MaxCalls == 4

TYPINGS_DIR      == PROJECT_NAME
DTS_MAIN_FILE    == "main.d.ts"
DTS_BROWSER_FILE == "browser.d.ts"

Targets == {"main", "browser"}

\* mainTypingsDir, browserTypingsDir, ambientMainTypingsDir, ambientBrowserTypingsDir
typingsDir(target, ambient) ==
  <<TYPINGS_DIR, target, IF ambient THEN "ambient" ELSE "definitions">>

toDefinition(name) == name \o ".d.ts"

\* getTypingsLocation and getDependencyLocation, by target.
getDependencyLocation(o) ==
  [t \in Targets |->
    [path    |-> join(o.cwd, Append(typingsDir(t, o.ambient), o.name)),
     file    |-> join(join(o.cwd, Append(typingsDir(t, o.ambient), o.name)),
                      <<toDefinition(o.name)>>),
     dtsFile |-> join(join(o.cwd, <<TYPINGS_DIR>>),
                      <<IF t = "main" THEN DTS_MAIN_FILE ELSE DTS_BROWSER_FILE>>)]]

\* path.relative(from, to), of normalized absolute paths
RECURSIVE relative(_, _)
relative(from, to) ==
  IF from # <<>> /\ to # <<>> /\ Head(from) = Head(to)
  THEN relative(Tail(from), Tail(to))
  ELSE [i \in 1..Len(from) |-> ".."] \o to

\* parseReferences(contents, cwd): the paths of the directives, resolved;
\* stringifyReferences(paths, cwd): one directive for each path, made relative.
parseReferences(contents, cwd) ==
  IF typeof(contents) = "undefined" THEN <<>>
  ELSE [i \in 1..Len(contents.v) |-> resolve(cwd, contents.v[i])]

stringifyReferences(paths, cwd) ==
  Str([i \in 1..Len(paths) |-> relative(cwd, paths[i])])

\* The strings of the model in the order of their UTF-16 code units, and the
\* order of two paths that follows from it.
CodeUnitOrder ==
  <<"/", "a", "a.d.ts", "ambient", "b", "b.d.ts", "browser", "definitions", "main", "p",
    TYPINGS_DIR, "w">>

RECURSIVE Less(_, _)
Less(p, q) ==
  LET Rank(s) == CHOOSE i \in 1..Len(CodeUnitOrder) : CodeUnitOrder[i] = s
  IN  IF p = <<>> \/ q = <<>> THEN q # <<>>
      ELSE IF Head(p) = Head(q) THEN Less(Tail(p), Tail(q))
      ELSE Rank(Head(p)) < Rank(Head(q))

\* array-uniq: the first of each.
RECURSIVE uniq(_)
uniq(s) ==
  IF s = <<>> THEN s
  ELSE LET init == uniq(SubSeq(s, 1, Len(s) - 1))
       IN  IF \E i \in 1..Len(init) : init[i] = Last(s) THEN init ELSE Append(init, Last(s))

\* Array.prototype.sort()
RECURSIVE sort(_)
sort(s) ==
  IF s = <<>> THEN s
  ELSE LET init == sort(SubSeq(s, 1, Len(s) - 1))
           n    == Cardinality({i \in 1..Len(init) : ~Less(Last(s), init[i])})
       IN  SubSeq(init, 1, n) \o <<Last(s)>> \o SubSeq(init, n + 1, Len(init))

\* uniq(typings).sort() of transformDtsFile, and the same without uniq.
sortOnly(typings) == sort(typings)

uniqSort(typings) == sort(uniq(typings))

\* transformDtsFile(path, transform) on a file of the given contents: the
\* contents written.  The transform is typings.concat([file]) in
\* writeDependency and typings.filter(x => x !== file) in removeDependency.
transformDtsFile(path, contents, op, file) ==
  LET cwd     == dirname(path)
      typings == parseReferences(contents, cwd)
  IN  stringifyReferences(
        uniqSort(IF op = "concat" THEN Append(typings, file)
                 ELSE SelectSeq(typings, LAMBDA x : x # file)), cwd)

\* The dependencies a call may name.
DefinitionOptions == [cwd : {Cwd}, name : {"a", "b"}, ambient : BOOLEAN]

\* writeDependency(output, options): for main and for browser, mkdirp(path),
\* writeFile(file, contents) and the reference added to the listing.  The
\* chain of one target may be rejected before its transformDtsFile.
writeDependency(o, rejected) ==
  LET location == getDependencyLocation(o)
  IN  /\ calls.n < MaxCalls
      /\ listing' =
           [t \in Targets |->
             IF t = rejected THEN listing[t]
             ELSE transformDtsFile(location[t].dtsFile, listing[t], "concat",
                                   location[t].file)]
      /\ installed' = installed \cup {location[t].file : t \in Targets \ {rejected}}
      /\ written' = IF rejected = "none" THEN written \cup {o} ELSE written
      /\ calls' = [n |-> calls.n + 1, clean |-> calls.clean /\ rejected = "none",
                   again |-> calls.again \/ (rejected = "none" /\ o \in written)]
      /\ UNCHANGED <<resolverVars, transformVars, compileVars>>

\* removeDependency(options): for main and for browser, rimraf(path) and,
\* however it settles (it may be rejected for one target), the reference
\* filtered out of the listing.
removeDependency(o, rejected) ==
  LET location == getDependencyLocation(o)
  IN  /\ calls.n < MaxCalls
      /\ listing' =
           [t \in Targets |->
             transformDtsFile(location[t].dtsFile, listing[t], "filter", location[t].file)]
      /\ installed' = installed \ {location[t].file : t \in Targets \ {rejected}}
      /\ written' = IF rejected = "none" THEN written \ {o} ELSE written
      /\ calls' = [calls EXCEPT !.n = @ + 1, !.clean = @ /\ rejected = "none"]
      /\ UNCHANGED <<resolverVars, transformVars, compileVars>>

----------------------------------------------------------------------------
(* compile (lib/compile): a call on a tree, with the entry of each node    *)
(* resolved and read for main and for browser.  A node of the tree is      *)
(* named by the dependency keys that lead to it from the root.             *)

\* The nodes of the trees given to compile, each with its entry fields and
\* the entry files that can be read: with the declarations of both targets;
\* with browserTypings that cannot be read; with a main whose declaration is
\* there, or is not; with no entry field at all; missing.
CompileNodes ==
  LET x == <<"x.d.ts">>
      y == <<"y.d.ts">>
      CompileNode(missing, main, typings, browserTypings, readable) ==
        [missing |-> missing, main |-> main, typings |-> typings,
         browserTypings |-> browserTypings, readable |-> readable]
  IN  {CompileNode(FALSE, Undefined, Str(x), Str(y), {x, y}),
       CompileNode(FALSE, Undefined, Str(x), Str(y), {x}),
       CompileNode(FALSE, Str(<<"index.js">>), Undefined, Undefined, {<<"index.d.ts">>}),
       CompileNode(FALSE, Str(<<"index.js">>), Undefined, Undefined, {}),
       CompileNode(FALSE, Undefined, Undefined, Undefined, {}),
       CompileNode(TRUE, Undefined, Str(x), Undefined, {x})}

\* The trees of the model: a root, a root with the dependency a, and the same
\* with the dependency b of a; a missing node has no dependencies.
CompileTrees ==
  LET Paths == {<<>>, <<"a">>, <<"a", "b">>}
  IN  {t \in UNION {[{p \in Paths : Len(p) <= n} -> CompileNodes] : n \in 0..2} :
         \A p \in DOMAIN t : t[p].missing => Append(p, "a") \notin DOMAIN t
                                              /\ Append(p, "b") \notin DOMAIN t}

\* The name of the node the keys lead to: N~k1~...~kn.
RECURSIVE namespace(_, _)
namespace(N, keys) ==
  IF keys = <<>> THEN N ELSE namespace(N, SubSeq(keys, 1, Len(keys) - 1)) \o "~" \o Last(keys)

\* The entry resolver: the declaration file of a node for a target, or the
\* error that there is none.
resolveEntry(node, target) ==
  CASE target = "browser" /\ node.browserTypings.t = "string" ->
         [code |-> "ok", path |-> node.browserTypings.v]
    [] node.typings.t = "string" -> [code |-> "ok", path |-> node.typings.v]
    [] node.main.t = "string" /\ isDefinition(node.main.v) ->
         [code |-> "ok", path |-> node.main.v]
    [] node.main.t = "string" ->
         IF <<"index.d.ts">> \in node.readable
         THEN [code |-> "ok", path |-> <<"index.d.ts">>]
         ELSE [code |-> "EntryNotFound", path |-> <<"index.d.ts">>]
    [] OTHER -> [code |-> "EntryResolution", path |-> NoPath]

\* The error of the node the keys lead to, naming the root only.
rootError(code, N, keys) ==
  [code |-> code,
   message |->
     CASE code = "MissingDependency" ->
            "Missing dependency \"" \o N \o "\", unable to compile dependency tree"
       [] code = "EntryResolution" ->
            "Unable to resolve entry \".d.ts\" file for \"" \o N \o "\""
       [] OTHER -> "Unable to read typings for \"" \o N \o "\""]

\* The error of the node the keys lead to, by its code, naming the node.
compileError(code, N, keys) ==
  LET NAME == namespace(N, keys)
  IN  [code |-> code,
       message |->
         CASE code = "MissingDependency" ->
                "Missing dependency \"" \o NAME \o "\", unable to compile dependency tree"
           [] code = "EntryResolution" ->
                "Unable to resolve entry \".d.ts\" file for \"" \o NAME \o "\""
           [] OTHER -> "Unable to read typings for \"" \o NAME \o "\""]

\* The declarations of a node counted as needed only when another node
\* needs them.
neededByOthers(keys, needed) == needed

\* A missing node fails the call when its declarations are needed, and the
\* root's always are.
needsDeclarations(keys, needed) == keys = <<>> \/ needed

\* The blocks of a target: in post-order, one for each node that is not
\* missing, with its name and its entry.
blocks(t, N, target) ==
  LET n    == Cardinality(DOMAIN t)
      at(i) == CHOOSE p \in DOMAIN t : Len(p) = n - i
  IN  SelectSeq([i \in 1..n |->
                   [module  |-> namespace(N, at(i)),
                    entry   |-> resolveEntry(t[at(i)], target).path,
                    missing |-> t[at(i)].missing]],
                LAMBDA b : ~b.missing)

\* compile(tree, {name}): the entries of main and of browser are asked for.
compile(t, N) ==
  /\ compiled.state = "idle"
  /\ compileTree' = t
  /\ compiled' = [compiled EXCEPT !.state = "pending", !.name = N]
  /\ entries' = {}
  /\ UNCHANGED <<resolverVars, transformVars, listingVars>>

\* The entry of the node at keys for a target is resolved and read: the call
\* is rejected with the error of the node, or the entry is kept for its block.
CompileEntry(target, keys, needed) ==
  LET node  == compileTree[keys]
      entry == resolveEntry(node, target)
      code  == CASE node.missing -> IF needsDeclarations(keys, needed)
                                    THEN "MissingDependency" ELSE "ok"
                 [] entry.code # "ok" -> entry.code
                 [] entry.path \notin node.readable -> "TypingsReadFailure"
                 [] OTHER -> "ok"
  IN  /\ compiled.state = "pending"
      /\ <<target, keys>> \notin entries
      /\ IF code = "ok"
         THEN /\ entries' = entries \cup {<<target, keys>>}
              /\ compiled' = compiled
         ELSE /\ entries' = entries
              /\ compiled' = [compiled EXCEPT !.state = "rejected",
                                              !.error = compileError(code, compiled.name, keys),
                                              !.at = keys]
      /\ UNCHANGED <<compileTree, resolverVars, transformVars, listingVars>>

\* Every entry of both targets is there: the call is fulfilled with the
\* blocks of main and of browser.
Assemble ==
  /\ compiled.state = "pending"
  /\ entries = {"main", "browser"} \X DOMAIN compileTree
  /\ compiled' = [compiled EXCEPT !.state = "fulfilled",
                                  !.main = blocks(compileTree, compiled.name, "main"),
                                  !.browser = blocks(compileTree, compiled.name, "browser")]
  /\ UNCHANGED <<compileTree, entries, resolverVars, transformVars, listingVars>>

----------------------------------------------------------------------------

\* No call of transformFile, of writeDependency or removeDependency, or of
\* compile was made: there is no file at path, no lockfile and no listing.
OthersIdle ==
  /\ disk = Undefined
  /\ lockfile = NoHolder
  /\ callers = [c \in Callers |-> NoCall]
  /\ listing = [t \in Targets |-> Undefined]
  /\ installed = {}
  /\ written = {}
  /\ calls = [n |-> 0, clean |-> TRUE, again |-> FALSE]
  /\ compileTree = <<>>
  /\ compiled = [state |-> "idle", name |-> "", error |-> compileError("none", "", <<>>),
                 main |-> <<>>, browser |-> <<>>, at |-> <<>>]
  /\ entries = {}

\* No call of resolveDependencies was made.
ResolverIdle ==
  /\ options = NoOptions
  /\ tasks = [i \in {} |-> Task("", "", "", NoPath, NoPath, NoOptions, NoParent, NoPath)]
  /\ nodes = (MISSING :> MissingNode)
  /\ DEFAULT_DEPENDENCY = [m \in MapNameSet |-> EmptyMap]
  /\ result = [state |-> "idle", value |-> NoParent]
  /\ reads = {}
  /\ checked = {}
  /\ thrown = {}
  /\ earlier = FALSE
  /\ before = [set |-> FALSE, options |-> NoOptions, nodes |-> nodes,
               heap |-> DEFAULT_DEPENDENCY]
  /\ previous = [set |-> FALSE, state |-> "idle", nodes |-> nodes, heap |-> DEFAULT_DEPENDENCY]

Init ==
  /\ fs \in {i.fs : i \in Inputs}
  /\ ResolverIdle
  /\ OthersIdle

\* No call of any kind was made, and there are no manifests.
InitIdle ==
  /\ fs = NoFiles
  /\ ResolverIdle
  /\ OthersIdle

\* The calls made on a project: with the options of its inputs, and after an
\* edit of the root manifests with the options of the call before the edit.
Calls ==
  IF before.set THEN {before.options} ELSE {i.options : i \in {j \in Inputs : j.fs = fs}}

Next ==
  \/ \E o \in Calls : resolveDependencies(o)
  \/ EditDevDependencies
  \/ \E id \in DOMAIN tasks : FindUpDone(id)
  \/ \E id \in DOMAIN tasks : BowerrcDone(id)
  \/ \E id \in DOMAIN tasks : ReadDone(id)
  \/ \E id \in DOMAIN tasks : \E j \in 1..Len(Entries(tasks[id])) :
       TryNext(id, Entries(tasks[id])[j])
  \/ \E id \in DOMAIN tasks : Join(id)
  \/ Merge

Spec == Init /\ [][Next]_vars

NextTransform ==
  \/ \E c \in Callers : transformFile(c)
  \/ \E c \in Callers : Lock(c)
  \/ \E c \in Callers : ReadFile(c)
  \/ \E c \in Callers : Handle(c)
  \/ \E c \in Callers : WriteFile(c)
  \/ \E c \in Callers : Unlock(c)

SpecTransform == InitIdle /\ [][NextTransform]_vars

NextListing ==
  \/ \E o \in DefinitionOptions : \E r \in {"none"} \cup Targets : writeDependency(o, r)
  \/ \E o \in DefinitionOptions : \E r \in {"none"} \cup Targets : removeDependency(o, r)

SpecListing == InitIdle /\ [][NextListing]_vars

NextCompile ==
  \/ \E t \in CompileTrees : \E N \in {"test", "main"} : compile(t, N)
  \/ \E target \in {"main", "browser"} : \E keys \in DOMAIN compileTree : \E needed \in BOOLEAN :
       CompileEntry(target, keys, needed)
  \/ Assemble

SpecCompile == InitIdle /\ [][NextCompile]_vars

----------------------------------------------------------------------------
(* What the claims speak of.                                               *)

Delivered == result.state = "fulfilled"

Range(f) == {f[k] : k \in DOMAIN f}

\* The map object field m of node id refers to.
Map(id, m) == MapOf(DEFAULT_DEPENDENCY, nodes[id], m)

Children(id) == UNION {Range(Map(id, m)) : m \in MapNameSet}

RECURSIVE Below(_)
Below(S) ==
  LET N == S \cup UNION {Children(i) : i \in S}
  IN  IF N = S THEN S ELSE Below(N)

\* The nodes of the delivered tree: those the maps lead to from the root.
TreeNodes == IF Delivered THEN Below({ROOT}) ELSE {}

\* The tree that hangs from the root of ns in heap d, as a value: each node
\* reached through the maps, with the maps it holds.
ChildrenIn(ns, d, id) == UNION {Range(MapOf(d, ns[id], m)) : m \in MapNameSet}

RECURSIVE BelowIn(_, _, _)
BelowIn(ns, d, S) ==
  LET N == S \cup UNION {ChildrenIn(ns, d, i) : i \in S}
  IN  IF N = S THEN S ELSE BelowIn(ns, d, N)

TreeOf(ns, d) ==
  [id \in BelowIn(ns, d, {ROOT}) |->
     [ns[id] EXCEPT !.dependencies = Own(MapOf(d, ns[id], "dependencies")),
                    !.devDependencies = Own(MapOf(d, ns[id], "devDependencies")),
                    !.ambientDependencies = Own(MapOf(d, ns[id], "ambientDependencies")),
                    !.ambientDevDependencies = Own(MapOf(d, ns[id], "ambientDevDependencies"))]]

InFlight(id) == id \in DOMAIN tasks /\ tasks[id].phase \in {"findUp", "bowerrc", "readJson"}

SrcsOf(ch) == [i \in 1..Len(ch) |-> nodes[ch[i]].src]

Distinct(sq) == \A i, j \in 1..Len(sq) : i # j => sq[i] # sq[j]

----------------------------------------------------------------------------
(* C1: along the parent chain of every node the resolver built, no two     *)
(* nodes have the same src.                                                *)
C1_NoCycle == \A id \in DOMAIN nodes : Distinct(SrcsOf(Chain(nodes, id)))

\* A chain of three manifests stands while a circular dependency was refused.
C1_Witness ==
  /\ thrown # {}
  /\ \E id \in DOMAIN nodes : Len(Chain(nodes, id)) >= 3

(* C2: once checkCircularDependency has thrown, resolveDependencies is     *)
(* rejected and stays so: no reader turned the throw into a missing node,  *)
(* and no tree is delivered, whatever is still in flight.                  *)
C2_CycleRejects ==
  thrown # {} =>
    /\ result.state = "rejected"
    /\ ROOT \notin DOMAIN nodes
    /\ \A id \in thrown : tasks[id].phase = "rejected" /\ id \notin DOMAIN nodes
    /\ \A id \in thrown : \A a \in DOMAIN tasks : IsPrefix(a, id) => tasks[a].phase = "rejected"

\* The throw came from the handler of resolveNpmDependency while a sibling
\* read was still in flight.
C2_Witness ==
  /\ \E id \in thrown : tasks[id].fn = "resolveNpmDependency"
  /\ \E id \in DOMAIN tasks : InFlight(id)
  /\ result.state = "rejected"

(* C3: every node with missing = true has four empty dependency maps, in   *)
(* every resolution of the process: the map objects of DEFAULT_DEPENDENCY, *)
(* which the missing nodes share, are never written to.                    *)
C3_MissingMapsEmpty ==
  /\ \A m \in MapNameSet : DEFAULT_DEPENDENCY[m] = EmptyMap
  /\ \A id \in DOMAIN nodes :
       nodes[id].missing => \A m \in MapNameSet : Map(id, m) = EmptyMap

\* A later resolution delivered a tree whose root has dependencies and that
\* holds a missing node with the shared map objects.
C3_Witness ==
  /\ earlier
  /\ Delivered
  /\ Map(ROOT, "dependencies") # EmptyMap
  /\ \E id \in TreeNodes : nodes[id].missing /\ nodes[id].dependencies.shared

(* C4: a top-level reader whose manifest is absent or unreadable returns a *)
(* missing node of its own ecosystem type, and resolveDependencies is not  *)
(* rejected for it.                                                        *)
C4_MissingRootTyped ==
  /\ \A id \in TopTasks :
       (id \in DOMAIN nodes /\ nodes[id].missing) => nodes[id].type = tasks[id].kind
  /\ result.state = "rejected" => thrown # {}

----------------------------------------------------------------------------
(* The merge of the three subtrees.                                        *)

Subtrees == <<BowerTask, NpmTask, NativeTask>>

EntryFields(n) == <<n.main, n.browser, n.typings, n.browserTypings, n.name, n.src>>

Greatest(S) == CHOOSE i \in S : \A j \in S : j <= i

EntryOfLast(S) ==
  IF S = {} THEN EntryFields(DefaultNode) ELSE EntryFields(nodes[Subtrees[Greatest(S)]])

IsString(x) == x.t = "string"

IsGiven(x) == x.t # "undefined"

(* C5, as the code has it: the root's main, browser, typings,              *)
(* browserTypings, name and src are those of the last of bower, npm,       *)
(* native that gives one of the four as a string; a browser mapping does   *)
(* not count; with no such subtree the six stay unset.                     *)
C5_LastStringEntryWins ==
  Delivered =>
    EntryFields(nodes[ROOT]) =
      EntryOfLast({i \in 1..3 : \/ IsString(nodes[Subtrees[i]].main)
                                \/ IsString(nodes[Subtrees[i]].browser)
                                \/ IsString(nodes[Subtrees[i]].typings)
                                \/ IsString(nodes[Subtrees[i]].browserTypings)})

\* The native config gives a browser mapping only, and the root is the npm
\* manifest's.
C5_Witness ==
  /\ Delivered
  /\ nodes[NativeTask].browser.t = "object"
  /\ ~IsString(nodes[NativeTask].main) /\ ~IsString(nodes[NativeTask].typings)
  /\ ~nodes[NpmTask].missing
  /\ nodes[ROOT].src = nodes[NpmTask].src
  /\ nodes[ROOT].browser = nodes[NpmTask].browser

(* C5, as claimed: the six root fields are those of the last subtree that  *)
(* gives one of the four at all, a browser mapping included.               *)
C5_LastEntryWins ==
  Delivered =>
    EntryFields(nodes[ROOT]) =
      EntryOfLast({i \in 1..3 : \/ IsGiven(nodes[Subtrees[i]].main)
                                \/ IsGiven(nodes[Subtrees[i]].browser)
                                \/ IsGiven(nodes[Subtrees[i]].typings)
                                \/ IsGiven(nodes[Subtrees[i]].browserTypings)})

(* C6: each of the four maps of the merged root is the union of that map   *)
(* of bower, npm and native, the later subtree winning a shared key.       *)
C6_MapsUnion ==
  Delivered =>
    \A m \in MapNameSet :
      Map(ROOT, m) = extend(extend(Map(BowerTask, m), Map(NpmTask, m)), Map(NativeTask, m))

----------------------------------------------------------------------------
(* The root level: the merged root, the three subtrees it is merged from   *)
(* and the native configs beside the root manifests, which are expanded    *)
(* with the options of the call.                                           *)

RootLevel == {ROOT, MISSING} \cup TopTasks \cup {Append(t, OverlayStep) : t \in TopTasks}

Front(id) == SubSeq(id, 1, Len(id) - 1)

(* C7: devDependencies are expanded at the root level only and only with   *)
(* options.dev, ambientDependencies only with options.ambient,             *)
(* ambientDevDependencies only with both; every task below the root level  *)
(* runs with dev = false and ambient = false and its node has these three  *)
(* maps empty; with dev = false no entry of a devDependencies or           *)
(* ambientDevDependencies map is ever resolved, and the call repeated      *)
(* after the root manifests lost their devDependencies delivers the same   *)
(* tree.                                                                   *)
C7_RootOnlyExpansion ==
  /\ \A id \in DOMAIN nodes :
       /\ Map(id, "devDependencies") # EmptyMap => options.dev /\ id \in RootLevel
       /\ Map(id, "ambientDependencies") # EmptyMap => options.ambient /\ id \in RootLevel
       /\ Map(id, "ambientDevDependencies") # EmptyMap =>
            options.dev /\ options.ambient /\ id \in RootLevel
  /\ \A id \in DOMAIN tasks \ RootLevel :
       ~tasks[id].options.dev /\ ~tasks[id].options.ambient
  /\ ~options.dev =>
       \A id \in DOMAIN tasks : \A i \in 1..Len(id) :
         id[i].m \notin {"devDependencies", "ambientDevDependencies"}
  /\ (before.set /\ Delivered /\ options = before.options /\ ~options.dev) =>
       TreeOf(nodes, DEFAULT_DEPENDENCY) = TreeOf(before.nodes, before.heap)

\* With dev and ambient the root got devDependencies and ambientDependencies,
\* and a manifest below the root that declares the same kept them empty.
C7_Witness ==
  /\ Delivered /\ options.dev /\ options.ambient
  /\ Map(ROOT, "devDependencies") # EmptyMap
  /\ Map(ROOT, "ambientDependencies") # EmptyMap
  /\ \E id \in DOMAIN tasks \ RootLevel :
       /\ tasks[id].expanded /\ tasks[id].phase = "resolved"
       /\ fs[tasks[id].src].devDependencies # NoMap
       /\ fs[tasks[id].src].ambientDependencies # NoMap
       /\ Map(id, "devDependencies") = EmptyMap
       /\ Map(id, "ambientDependencies") = EmptyMap

----------------------------------------------------------------------------
(* The candidates of an entry of a native manifest.                        *)

CandidateTask(id, e, c) == Append(id, [e EXCEPT !.c = c])

Tried(id, e, c) == CandidateTask(id, e, c) \in DOMAIN tasks

CameOut(id, e, c) == Tried(id, e, c) /\ tasks[CandidateTask(id, e, c)].phase = "resolved"

CameOutMissing(id, e, c) == CameOut(id, e, c) /\ nodes[CandidateTask(id, e, c)].missing

(* C8: candidate ci of a native entry is attempted only after c1..c(i-1)   *)
(* each came out missing, so nothing after the first candidate found is    *)
(* attempted; the entry's node is that of the first candidate found, and   *)
(* it is missing exactly when every candidate came out missing (always,    *)
(* for the empty list).                                                    *)
C8_FirstFound ==
  \A id \in DOMAIN tasks :
    (tasks[id].kind = PROJECT_NAME /\ tasks[id].expanded) =>
      \A j \in 1..Len(Entries(tasks[id])) :
        LET e == Entries(tasks[id])[j]
            n == Len(Candidates(tasks[id], e.m, e.k))
            found == {c \in 1..n : CameOut(id, e, c) /\ ~CameOutMissing(id, e, c)}
        IN  /\ \A c \in 1..n : Tried(id, e, c) => \A b \in 1..(c - 1) : CameOutMissing(id, e, b)
            /\ \A c \in DOMAIN tasks : (Front(c) = id /\ c[Len(c)].m = e.m /\ c[Len(c)].k = e.k)
                  => c[Len(c)].c \in 1..n
            /\ tasks[id].phase = "resolved" =>
                 /\ nodes[Map(id, e.m)[e.k]].missing <=> \A c \in 1..n : CameOutMissing(id, e, c)
                 /\ \A c \in found : Map(id, e.m)[e.k] = CandidateTask(id, e, c)
                 /\ n = 0 => Map(id, e.m)[e.k] = MISSING

\* An entry of three candidates: the first came out missing, the second was
\* found and is the entry's node, the third was never attempted.
C8_Witness ==
  \E id \in DOMAIN tasks :
    /\ tasks[id].kind = PROJECT_NAME /\ tasks[id].phase = "resolved"
    /\ \E j \in 1..Len(Entries(tasks[id])) :
         LET e == Entries(tasks[id])[j]
         IN  /\ Len(Candidates(tasks[id], e.m, e.k)) = 3
             /\ CameOutMissing(id, e, 1)
             /\ CameOut(id, e, 2) /\ ~CameOutMissing(id, e, 2)
             /\ ~Tried(id, e, 3)
             /\ Map(id, e.m)[e.k] = CandidateTask(id, e, 2)

(* C9: a dependency whose resolved location ends in .d.ts is never handed  *)
(* to checkCircularDependency or to a manifest read; its node is there at  *)
(* once, not missing, with typings = src = the location, the requesting    *)
(* node as parent and four empty maps, whether the file exists or not.     *)
C9_DefinitionDirect ==
  \A id \in DOMAIN tasks :
    isDefinition(tasks[id].src) =>
      /\ id \notin reads /\ id \notin checked
      /\ tasks[id].phase = "resolved"
      /\ nodes[id] = [DefaultNode EXCEPT !.type = PROJECT_NAME,
                                         !.typings = Str(tasks[id].src),
                                         !.src = tasks[id].src,
                                         !.parent = Front(id)]
      /\ \A m \in MapNameSet : Map(id, m) = EmptyMap

\* A definition file that does not exist is a node of the delivered tree,
\* and so is one located as an npm dependency.
C9_Witness ==
  /\ Delivered
  /\ \E id \in TreeNodes : isDefinition(nodes[id].src) /\ nodes[id].src \notin DOMAIN fs
  /\ \E id \in TreeNodes :
       isDefinition(nodes[id].src) /\ nodes[id].src = NodeModule("a", "index.d.ts")

(* C10: each of the four maps of an npm or bower node is the map resolved  *)
(* from its manifest overridden by the same map of the native config       *)
(* beside the manifest.                                                    *)
C10_OverlayOverrides ==
  \A id \in DOMAIN tasks :
    (tasks[id].kind \in {"npm", "bower"} /\ tasks[id].expanded /\ tasks[id].phase = "resolved") =>
      \A m \in MapNameSet :
        Map(id, m) = extend(resolvedMap(World, id, m), Map(Append(id, OverlayStep), m))

----------------------------------------------------------------------------
(* C11: a manifest that exists and whose fetch or parse fails (a text that *)
(* is no JSON, a status other than 200) makes the resolution fail with     *)
(* that error; only a manifest that is absent comes out as a missing node. *)
C11_TransportSurfaced ==
  \A id \in reads :
    (~InFlight(id) /\ Exists(fs, tasks[id].src) /\ fs[tasks[id].src].kind # "json") =>
      /\ tasks[id].phase = "rejected"
      /\ result.state = "rejected"
      /\ id \notin DOMAIN nodes

(* C12: a call repeated on the same files with the same options, its reads *)
(* completing in any other order, has the same outcome: it fails if the    *)
(* call before failed, and else delivers the same tree, node for node and  *)
(* key for key.                                                            *)
C12_SameOutcome ==
  (previous.set /\ result.state \in {"fulfilled", "rejected"}) =>
    /\ result.state = previous.state
    /\ Delivered => TreeOf(nodes, DEFAULT_DEPENDENCY) = TreeOf(previous.nodes, previous.heap)

\* The call and the call before delivered a tree for which four manifests
\* or more were read, two of them at least at the same time.
C12_Witness ==
  /\ previous.set /\ Delivered /\ previous.state = "fulfilled"
  /\ Cardinality(reads) >= 4
  /\ \E a, b \in reads : a # b /\ Front(a) = Front(b)

(* C13: a task is fulfilled with its node only when the child task of each *)
(* key of each expanded map of its manifest is fulfilled: each map of the  *)
(* node has one child for each key of the manifest (and of the overlay,    *)
(* for npm and bower), and no task started for the node is still running.  *)
C13_JoinedBeforeComplete ==
  \A id \in DOMAIN tasks :
    (tasks[id].expanded /\ tasks[id].phase = "resolved") =>
      /\ \A c \in DOMAIN tasks : Front(c) = id => tasks[c].phase = "resolved"
      /\ \A j \in 1..Len(Entries(tasks[id])) :
           LET e == Entries(tasks[id])[j]
           IN  /\ Entry(World, id, e.m, e.k).state = "done"
               /\ e.k \in DOMAIN Map(id, e.m)
               /\ tasks[id].kind = PROJECT_NAME =>
                    Map(id, e.m)[e.k] = Entry(World, id, e.m, e.k).node
      /\ \A m \in MapNameSet :
           DOMAIN Map(id, m) =
             KeySet(expandedMaps(tasks[id])[m])
               \cup (IF tasks[id].kind # PROJECT_NAME /\ m \in {"dependencies", "devDependencies"}
                     THEN DOMAIN Map(Append(id, OverlayStep), m) ELSE {})
      /\ \A m \in MapNameSet : \A k \in DOMAIN Map(id, m) :
           \/ Map(id, m)[k] = MISSING
           \/ /\ Map(id, m)[k] \in DOMAIN tasks
              /\ tasks[Map(id, m)[k]].phase = "resolved"

\* A delivered tree whose npm root waited for two dependencies and for the
\* native config beside it.
C13_Witness ==
  /\ Delivered
  /\ tasks[NpmTask].expanded
  /\ Cardinality(DOMAIN Map(NpmTask, "dependencies")) >= 2
  /\ Map(Append(NpmTask, OverlayStep), "dependencies") # EmptyMap
  /\ \E c \in reads : Front(c) = NpmTask /\ c # Append(NpmTask, OverlayStep)

\* Caller c is between the start of its read and the end of its write.
InSection(c) == callers[c].pc \in {"read", "transform", "write"}

\* lock() of caller c was rejected.
LockFailed(c) == callers[c].pc \notin {"idle", "lock"} /\ ~callers[c].locked

(* C14: a call of transformFile that has made the lockfile has removed it  *)
(* when it completes, whether the read failed, the transform threw, the    *)
(* write failed or all went well: the lockfile left is never its own.      *)
C14_LockReleased ==
  \A c \in Callers :
    (callers[c].pc = "done" /\ callers[c].locked) =>
      /\ callers[c].unlocked
      /\ lockfile # c

\* Two calls that made the lockfile have completed, one rejected for its
\* transform and one for its write.
C14_Witness ==
  \E c, d \in Callers :
    /\ callers[c].pc = "done" /\ callers[c].locked /\ callers[c].error = "transform"
    /\ callers[d].pc = "done" /\ callers[d].locked /\ callers[d].error = "write"

(* C18: of the calls of transformFile on one path no two are between read  *)
(* and write at the same time, and when all have been fulfilled the file   *)
(* holds the entry of each of them.                                        *)
C18_NoLostUpdate ==
  /\ \A c, d \in Callers : (c # d /\ InSection(c)) => ~InSection(d)
  /\ (\A c \in Callers : callers[c].pc = "done" /\ callers[c].outcome = "fulfilled") =>
       /\ typeof(disk) = "string"
       /\ \A c \in Callers : \E i \in 1..Len(disk.v) : disk.v[i] = c

(* C19: a call whose lock() was rejected is rejected, has not called       *)
(* transform, has not written the file and has not removed the lockfile of *)
(* the caller that holds it.                                               *)
C19_LockFailureStops ==
  \A c \in Callers :
    LockFailed(c) =>
      /\ ~callers[c].called
      /\ ~callers[c].wrote
      /\ callers[c].removed = NoHolder
      /\ callers[c].pc = "done" => callers[c].outcome = "rejected"

\* The references a listing holds, as files.
References(t) ==
  IF typeof(listing[t]) = "undefined" THEN <<>>
  ELSE [i \in 1..Len(listing[t].v) |-> resolve(join(Cwd, <<TYPINGS_DIR>>), listing[t].v[i])]

Declarers(x) == IF x = ROOT THEN TopTasks ELSE {x, Append(x, OverlayStep)}

\* The keys the native config beside the manifest of x contributes to map m.
OverlayKeys(x, m) ==
  IF Append(x, OverlayStep) \in DOMAIN nodes THEN DOMAIN Map(Append(x, OverlayStep), m) ELSE {}

\* A missing node made without a manifest having been read for it.
Unread(c) == c = MISSING \/ (nodes[c].missing /\ c \notin reads /\ c \notin checked)

Named(N, keys) ==
  CASE keys = <<>> -> N
    [] keys = <<"a">> -> N \o "~a"
    [] keys = <<"a", "b">> -> N \o "~a~b"

(* C16: compile(tree, {name: N}) on a tree whose root is missing is never  *)
(* fulfilled: it is rejected with the message                              *)
(* Missing dependency "N", unable to compile dependency tree               *)
(* and gives neither a main nor a browser output.                          *)
C16_MissingRootFails ==
  (compiled.state # "idle" /\ compileTree[<<>>].missing) =>
    /\ compiled.state # "fulfilled"
    /\ compiled.main = <<>> /\ compiled.browser = <<>>
    /\ compiled.state = "rejected" =>
         compiled.error.message =
           IF compiled.name = "test"
           THEN "Missing dependency \"test\", unable to compile dependency tree"
           ELSE "Missing dependency \"main\", unable to compile dependency tree"

\* compile on a missing root, with the name test, has been rejected.
C16_Witness ==
  /\ compiled.state = "rejected"
  /\ compileTree[<<>>].missing
  /\ compiled.name = "test"

(* C17: a call of compile rejected for the entry of a node has given no    *)
(* output, the node's entry can indeed not be resolved or not be read for  *)
(* main or for browser, and the message names the node: N for the root,    *)
(* N~k1~...~kn for the node the keys k1..kn lead to - Unable to resolve    *)
(* entry ".d.ts" file for "NAME" when the node has no entry field, Unable  *)
(* to read typings for "NAME" when its declaration file cannot be read.    *)
C17_EntryErrorNamesNode ==
  (compiled.state = "rejected" /\ compiled.error.code # "MissingDependency") =>
    LET node == compileTree[compiled.at]
        NAME == Named(compiled.name, compiled.at)
        none == node.main.t # "string" /\ node.typings.t # "string"
                  /\ node.browserTypings.t # "string"
    IN  /\ compiled.main = <<>> /\ compiled.browser = <<>>
        /\ ~node.missing
        /\ compiled.error.code \in {"EntryResolution", "EntryNotFound", "TypingsReadFailure"}
        /\ compiled.error.code = "EntryResolution" <=> none
        /\ none => compiled.error.message =
                     "Unable to resolve entry \".d.ts\" file for \"" \o NAME \o "\""
        /\ ~none =>
             /\ compiled.error.message = "Unable to read typings for \"" \o NAME \o "\""
             /\ \E target \in {"main", "browser"} :
                  resolveEntry(node, target).path \notin node.readable

\* compile with the name main has been rejected for the entry of the
\* dependency b of the dependency a of the root.
C17_Witness ==
  /\ compiled.state = "rejected"
  /\ compiled.at = <<"a", "b">>
  /\ compiled.error.message = "Unable to read typings for \"main~a~b\""

(* C21: the root of every delivered tree has missing = false and           *)
(* ambient = false, whatever the bower, npm and native subtrees are: also  *)
(* when all three are missing and when the native config has ambient:      *)
(* true.                                                                   *)
C21_RootPresentNotAmbient ==
  Delivered => (~nodes[ROOT].missing /\ ~nodes[ROOT].ambient)

\* A delivered tree whose native subtree is ambient and gives the root its
\* entry, while the bower and npm subtrees are missing.
C21_Witness ==
  /\ Delivered
  /\ nodes[NativeTask].ambient /\ ~nodes[NativeTask].missing
  /\ EntryFields(nodes[ROOT]) = EntryFields(nodes[NativeTask])
  /\ nodes[BowerTask].missing /\ nodes[NpmTask].missing

=============================================================================
